---- MODULE Spec2Model ----
(***************************************************************************)
(* Model of src/app.py: the recipe search of the Streamlit application.    *)
(*                                                                         *)
(* Number representation.  The program computes on Python floats; the      *)
(* model keeps every value on a binary lattice, where float arithmetic is  *)
(* exact, and stores it as an integer count of lattice steps:              *)
(*   - a continuous configuration field is a count of 0.005 (1/200); the   *)
(*     optimizer's raw points lie on multiples of 1/8 (25 steps), which    *)
(*     are exact floats, so that round(x, 2) is exactly round-half-even;   *)
(*   - an outcome or target value is a count of 0.25;                      *)
(*   - an error is a count of 0.125, so the weights 2.0, 1.5 and 1.0 of    *)
(*     the objective are the integer factors 4, 3 and 2.                   *)
(***************************************************************************)
EXTENDS Integers, Naturals, Sequences, FiniteSets, TLC

\* ------------------------------------------------------------------ bounds
\* Largest evaluation budget n_calls a caller passes.
MaxCalls == 4
\* Number of points of the search space the optimizer chooses among.
NumCands == 3
\* Seed evaluations of gp_minimize (the library's default is 10).
NInitialPoints == 2

Searches == {1, 2}

Abs(v) == IF v < 0 THEN -v ELSE v

\* ------------------------------------------------------- 1. model loading
\* The regressors the file multi_pig_model_v3.pkl may hold.  A model is a
\* fixed function of the 9-column input row (thresholds as in a tree
\* regressor); outcomes in steps of 0.25.
Models == {"modelA", "modelB"}

ModelPredict(m, row) ==
    IF m = "modelA"
    THEN << IF row.percent_sweet_potato >= 6025 THEN 48 ELSE 44,
            IF row.breed_Kurobuta = 1 THEN 32 ELSE 28,
            36,
            IF row.feed_days >= 160 THEN 32 ELSE 30,
            28,
            23 >>
    ELSE << IF row.breed_Kurobuta = 1 THEN 52 ELSE 44,
            32,
            36,
            IF row.feed_days >= 200 THEN 34 ELSE 32,
            28,
            IF row.temperature >= 5000 THEN 24 ELSE 23 >>

\* load_models(): what joblib.load finds decides the pair returned; a missing
\* file (FileNotFoundError) is caught and gives (None, False).  Any other
\* exception of joblib.load is not caught: see ScriptRun.
load_models(file) ==
    IF file \in Models THEN << file, TRUE >> ELSE << "None", FALSE >>

\* ------------------------------------------------- 2. prediction function
get_pig_prediction_v3(model, breed, sweet_potato, oak, days, temperature, walk_distance, density, air_quality) ==
    LET input_df == [percent_sweet_potato |-> sweet_potato,
                     percent_oak          |-> oak,
                     feed_days            |-> days,
                     temperature          |-> temperature,
                     walk_distance_km     |-> walk_distance,
                     stocking_density     |-> density,
                     air_quality          |-> air_quality,
                     breed_Kurobuta       |-> IF breed = "Kurobuta" THEN 1 ELSE 0,
                     breed_Iberian        |-> IF breed = "Iberian" THEN 1 ELSE 0]
        results == ModelPredict(model, input_df)
    IN  [predicted_imf         |-> results[1],
         predicted_sweetness   |-> results[2],
         predicted_aroma       |-> results[3],
         predicted_umami       |-> results[4],
         predicted_fat_quality |-> results[5],
         predicted_ph_24h      |-> results[6]]

\* ------------------------------------------------------- 3.1 search space
\* Bounds of the 8 dimensions (continuous ones in steps of 0.005).
space ==
    [breed         |-> {"Kurobuta", "Iberian"},
     sweet_potato  |-> 0 .. 12000,
     oak           |-> 0 .. 8000,
     days          |-> 120 .. 221,
     temperature   |-> 2000 .. 7000,
     walk_distance |-> 20 .. 500,
     density       |-> 140 .. 300,
     air_quality   |-> 200 .. 2000]

InSpace(x) == \A d \in DOMAIN space : x[d] \in space[d]

\* The i-th point of the lattice the optimizer's proposals are taken from:
\* continuous coordinates are multiples of 1/8.
Cand(i) ==
    [breed         |-> IF i % 2 = 1 THEN "Kurobuta" ELSE "Iberian",
     sweet_potato  |-> 25 * ((241 * i) % 481),
     oak           |-> 25 * ((107 * i) % 321),
     days          |-> 120 + ((37 * i) % 102),
     temperature   |-> 2000 + 25 * ((53 * i) % 201),
     walk_distance |-> 25 + 25 * ((7 * i) % 20),
     density       |-> 150 + 25 * ((5 * i) % 7),
     air_quality   |-> 200 + 25 * ((29 * i) % 73)]

\* ---------------------------------------------------- 3.2 objective
TargetKeys == {"imf", "sweet", "aroma", "umami", "fat_q", "ph"}

\* Variant of objective_function that leaves out the factor 2.0 of imf.
objective_function_mut(model, T, params) ==
    LET prediction == get_pig_prediction_v3(model,
                          params.breed, params.sweet_potato, params.oak, params.days,
                          params.temperature, params.walk_distance, params.density,
                          params.air_quality)
    IN  IF TargetKeys \subseteq DOMAIN T
        THEN [ok |-> TRUE, prediction |-> prediction,
              total_error |->
                    Abs(prediction.predicted_imf - T.imf) * 2
                  + Abs(prediction.predicted_sweetness - T.sweet) * 2
                  + Abs(prediction.predicted_aroma - T.aroma) * 2
                  + Abs(prediction.predicted_umami - T.umami) * 3
                  + Abs(prediction.predicted_fat_quality - T.fat_q) * 2
                  + Abs(prediction.predicted_ph_24h - T.ph) * 3]
        ELSE [ok |-> FALSE, prediction |-> prediction, total_error |-> 0]

\* objective_function reads the module-level TARGETS (argument T) after the
\* prediction has been made.  The result is the error, or (ok = FALSE) the
\* KeyError that the first missing key raises.
objective_function(model, T, params) ==
    LET prediction == get_pig_prediction_v3(model,
                          params.breed, params.sweet_potato, params.oak, params.days,
                          params.temperature, params.walk_distance, params.density,
                          params.air_quality)
    IN  IF TargetKeys \subseteq DOMAIN T
        THEN LET error_imf   == Abs(prediction.predicted_imf - T.imf) * 4
                 error_sweet == Abs(prediction.predicted_sweetness - T.sweet) * 2
                 error_aroma == Abs(prediction.predicted_aroma - T.aroma) * 2
                 error_umami == Abs(prediction.predicted_umami - T.umami) * 3
                 error_fat_q == Abs(prediction.predicted_fat_quality - T.fat_q) * 2
                 error_ph    == Abs(prediction.predicted_ph_24h - T.ph) * 3
             IN  [ok |-> TRUE, prediction |-> prediction,
                  total_error |-> error_imf + error_sweet + error_aroma
                                  + error_umami + error_fat_q + error_ph]
        ELSE [ok |-> FALSE, prediction |-> prediction, total_error |-> 0]

\* ------------------------------------------------------------ state
VARIABLES
    multi_model_v3,   \* the loaded model, or "None"
    models_loaded,    \* second component of load_models()
    TARGETS,          \* the module-level dict the objective reads
    targets_dict,     \* per search: the argument targets_dict
    n_calls,          \* per search: the argument n_calls
    pc,               \* per search: "idle", "running", "done", "failed"
    hist,             \* per search: the optimizer's observations, in order
    oracleCalls,      \* per search: invocations of get_pig_prediction_v3
    ret,              \* per search: the returned pair, << >> before it returns
    raised,           \* per search: the exception that ended it, or "none"
    gp,               \* the proposals gp_minimize has made: <<what it saw, point>>
    modelFile,        \* what multi_pig_model_v3.pkl holds, "missing" or "unreadable"
    cache,            \* st.cache_resource of load_models: << >> or <<its result>>
    uiPc,             \* the page: "start", "widgets", "searching", "disabled",
                      \* "crashed"
    loadReports,      \* executions of the st.error of load_models
    clicks            \* presses of the search button

uiVars == << modelFile, cache, uiPc, loadReports, clicks >>

vars == << multi_model_v3, models_loaded, TARGETS, targets_dict, n_calls,
           pc, hist, oracleCalls, ret, raised, gp, uiVars >>

\* Target profiles a caller passes (values in steps of 0.25): two complete
\* ones and one that lacks the key "umami".
EmptyDict == [k \in {} |-> 0]
ProfileA == [imf |-> 48, sweet |-> 32, aroma |-> 36, umami |-> 30, fat_q |-> 28, ph |-> 23]
ProfileB == [imf |-> 44, sweet |-> 32, aroma |-> 36, umami |-> 32, fat_q |-> 28, ph |-> 23]
ProfileNoUmami == [imf |-> 48, sweet |-> 32, aroma |-> 36, fat_q |-> 28, ph |-> 23]
Profiles == {ProfileA, ProfileB, ProfileNoUmami}

\* --------------------------------------------------- 3.3 the optimizer
\* Variant: a seed that differs from call to call.
random_state_mut(s) == 42 + s
\* random_state passed to gp_minimize by search s.
random_state(s) == 42

\* Variant: the proposals depend on the budget as well.
Observed_mut(s) ==
    << random_state(s) + n_calls[s],
       [j \in 1 .. Len(hist[s]) |->
           << hist[s][j].i,
              IF Len(hist[s]) < NInitialPoints THEN 0 ELSE hist[s][j].y >>] >>

\* What the next proposal of gp_minimize depends on: the seed and the
\* observations so far.  The seed points are drawn before any value is
\* seen, so during seeding the values are masked.
Observed(s) ==
    << random_state(s),
       [j \in 1 .. Len(hist[s]) |->
           << hist[s][j].i,
              IF Len(hist[s]) < NInitialPoints THEN 0 ELSE hist[s][j].y >>] >>

\* gp_minimize proposes points of the space only.
Points == {i \in 1 .. NumCands : InSpace(Cand(i))}

\* The points gp_minimize may propose next: the library is deterministic for
\* a fixed random_state, so a situation seen before gets the same proposal;
\* a new situation gets any point (the surrogate is not modelled); seed
\* points are pairwise distinct samples.
Ask(s) ==
    IF \E e \in gp : e[1] = Observed(s)
    THEN {e[2] : e \in {d \in gp : d[1] = Observed(s)}}
    ELSE IF Len(hist[s]) < NInitialPoints
         THEN {i \in Points : \A j \in 1 .. Len(hist[s]) : hist[s][j].i # i}
         ELSE Points

\* Variant: one evaluation too many.
BudgetLeft_mut(s) == Len(hist[s]) <= n_calls[s]
\* Loop condition of gp_minimize: evaluations left in the budget.
BudgetLeft(s) == Len(hist[s]) < n_calls[s]

\* Variant: the last minimum.
BestIndex_mut(h) ==
    CHOOSE j \in 1 .. Len(h) :
        /\ \A k \in 1 .. Len(h) : h[j].y <= h[k].y
        /\ \A k \in (j + 1) .. Len(h) : h[k].y > h[j].y
\* result.x is x_iters[argmin(func_vals)]: the first minimum.
BestIndex(h) ==
    CHOOSE j \in 1 .. Len(h) :
        /\ \A k \in 1 .. Len(h) : h[j].y <= h[k].y
        /\ \A k \in 1 .. (j - 1) : h[k].y > h[j].y

\* round(v, 2) of a value in steps of 0.005 lying on the 1/8 lattice: an odd
\* count is an exact tie and goes to the even hundredth.
round2(v) ==
    IF v % 2 = 0 THEN v
    ELSE IF (v \div 2) % 2 = 0 THEN v - 1 ELSE v + 1

best_recipe_of(best_params_list) ==
    [breed                |-> best_params_list.breed,
     percent_sweet_potato |-> round2(best_params_list.sweet_potato),
     percent_oak          |-> round2(best_params_list.oak),
     feed_days            |-> best_params_list.days,
     temperature          |-> round2(best_params_list.temperature),
     walk_distance_km     |-> round2(best_params_list.walk_distance),
     stocking_density     |-> round2(best_params_list.density),
     air_quality          |-> round2(best_params_list.air_quality)]

\* Variant: the final prediction is made on the optimizer's raw point.
best_prediction_of_mut(model, best_recipe, best_params_list) ==
    get_pig_prediction_v3(model,
        best_params_list.breed, best_params_list.sweet_potato,
        best_params_list.oak, best_params_list.days,
        best_params_list.temperature, best_params_list.walk_distance,
        best_params_list.density, best_params_list.air_quality)
\* The final prediction is made on the fields of best_recipe.
best_prediction_of(model, best_recipe, best_params_list) ==
    get_pig_prediction_v3(model,
        best_recipe.breed, best_recipe.percent_sweet_potato,
        best_recipe.percent_oak, best_recipe.feed_days,
        best_recipe.temperature, best_recipe.walk_distance_km,
        best_recipe.stocking_density, best_recipe.air_quality)

\* find_best_recipe_v4_bayesian is entered: TARGETS is rebound and
\* gp_minimize checks the budget against its seed evaluations.
Call(s, T, n) ==
    /\ TARGETS' = T
    /\ targets_dict' = [targets_dict EXCEPT ![s] = T]
    /\ n_calls' = [n_calls EXCEPT ![s] = n]
    /\ pc' = [pc EXCEPT ![s] = IF n < NInitialPoints THEN "failed" ELSE "running"]
    /\ raised' = [raised EXCEPT ![s] = IF n < NInitialPoints THEN "ValueError" ELSE "none"]
    /\ hist' = [hist EXCEPT ![s] = << >>]
    /\ oracleCalls' = [oracleCalls EXCEPT ![s] = 0]
    /\ ret' = [ret EXCEPT ![s] = << >>]
    /\ UNCHANGED << multi_model_v3, models_loaded, gp >>

\* One iteration of gp_minimize: a point is proposed and the objective is
\* evaluated on it; the objective returns and the observation is recorded
\* (with the prediction and the TARGETS it was computed from).  The six
\* reads of TARGETS are taken as one.
EvaluateReturns(s) ==
    /\ pc[s] = "running" /\ BudgetLeft(s)
    /\ \E i \in Ask(s) :
         LET r == objective_function(multi_model_v3, TARGETS, Cand(i))
         IN  /\ r.ok
             /\ hist' = [hist EXCEPT ![s] = Append(@,
                            [i |-> i, x |-> Cand(i), y |-> r.total_error,
                             prediction |-> r.prediction, target |-> TARGETS])]
             /\ gp' = gp \cup {<< Observed(s), i >>}
    /\ oracleCalls' = [oracleCalls EXCEPT ![s] = @ + 1]
    /\ UNCHANGED << multi_model_v3, models_loaded, TARGETS, targets_dict,
                    n_calls, pc, ret, raised, uiVars >>

\* The objective raises KeyError: TARGETS lacks a key (read after the
\* prediction was made).  Nothing catches it.
EvaluateKeyError(s) ==
    /\ pc[s] = "running" /\ BudgetLeft(s)
    /\ \E i \in Ask(s) :
         /\ ~ objective_function(multi_model_v3, TARGETS, Cand(i)).ok
         /\ gp' = gp \cup {<< Observed(s), i >>}
    /\ oracleCalls' = [oracleCalls EXCEPT ![s] = @ + 1]
    /\ pc' = [pc EXCEPT ![s] = "failed"]
    /\ raised' = [raised EXCEPT ![s] = "KeyError"]
    /\ UNCHANGED << multi_model_v3, models_loaded, TARGETS, targets_dict,
                    n_calls, hist, ret, uiVars >>

\* Variant: the failure is caught and the best observation so far returned.
EvaluateOracleFails_mut(s) ==
    /\ pc[s] = "running" /\ BudgetLeft(s)
    /\ hist[s] # << >>
    /\ oracleCalls' = [oracleCalls EXCEPT ![s] = @ + 1]
    /\ pc' = [pc EXCEPT ![s] = "failed"]
    /\ raised' = [raised EXCEPT ![s] = "OracleError"]
    /\ ret' = [ret EXCEPT ![s] =
                 << best_recipe_of(hist[s][BestIndex(hist[s])].x),
                    hist[s][BestIndex(hist[s])].prediction >>]
    /\ UNCHANGED << multi_model_v3, models_loaded, TARGETS, targets_dict,
                    n_calls, hist, gp, uiVars >>
\* The model's predict raises inside the objective.  Nothing catches it.
EvaluateOracleFails(s) ==
    /\ pc[s] = "running" /\ BudgetLeft(s)
    /\ oracleCalls' = [oracleCalls EXCEPT ![s] = @ + 1]
    /\ pc' = [pc EXCEPT ![s] = "failed"]
    /\ raised' = [raised EXCEPT ![s] = "OracleError"]
    /\ UNCHANGED << multi_model_v3, models_loaded, TARGETS, targets_dict,
                    n_calls, hist, ret, gp, uiVars >>

\* gp_minimize has returned: the best point is rounded, the model is asked
\* once more and the pair is returned.
AssembleReturns(s) ==
    /\ pc[s] = "running" /\ ~ BudgetLeft(s)
    /\ LET best_params_list == hist[s][BestIndex(hist[s])].x
           best_recipe == best_recipe_of(best_params_list)
       IN  ret' = [ret EXCEPT ![s] =
                     << best_recipe,
                        best_prediction_of(multi_model_v3,
                                           best_recipe, best_params_list) >>]
    /\ oracleCalls' = [oracleCalls EXCEPT ![s] = @ + 1]
    /\ pc' = [pc EXCEPT ![s] = "done"]
    /\ UNCHANGED << multi_model_v3, models_loaded, TARGETS, targets_dict,
                    n_calls, hist, raised, gp, uiVars >>

\* The model's predict raises in the final call.
AssembleOracleFails(s) ==
    /\ pc[s] = "running" /\ ~ BudgetLeft(s)
    /\ oracleCalls' = [oracleCalls EXCEPT ![s] = @ + 1]
    /\ pc' = [pc EXCEPT ![s] = "failed"]
    /\ raised' = [raised EXCEPT ![s] = "OracleError"]
    /\ UNCHANGED << multi_model_v3, models_loaded, TARGETS, targets_dict,
                    n_calls, hist, ret, gp, uiVars >>

\* ------------------------------------------- callers of the entry point
\* The model is loaded; find_best_recipe_v4_bayesian is called with any
\* arguments.
InitLoaded ==
    /\ modelFile \in Models
    /\ cache = << load_models(modelFile) >>
    /\ multi_model_v3 = modelFile
    /\ models_loaded = TRUE
    /\ uiPc = "none"
    /\ loadReports = 0
    /\ clicks = 0
    /\ TARGETS = EmptyDict
    /\ targets_dict = [s \in Searches |-> EmptyDict]
    /\ n_calls = [s \in Searches |-> 0]
    /\ pc = [s \in Searches |-> "idle"]
    /\ hist = [s \in Searches |-> << >>]
    /\ oracleCalls = [s \in Searches |-> 0]
    /\ ret = [s \in Searches |-> << >>]
    /\ raised = [s \in Searches |-> "none"]
    /\ gp = {}

Finished(s) == pc[s] \in {"done", "failed"}

\* One thread calls the function twice: the second call is reached when the
\* first has returned (an exception of the first one ends the thread).
SequentialCall(s) ==
    /\ pc[s] = "idle"
    /\ \A t \in Searches : t < s => pc[t] = "done"
    /\ \E T \in Profiles, n \in 1 .. MaxCalls : Call(s, T, n)
    /\ UNCHANGED uiVars

Next ==
    \E s \in Searches : \/ SequentialCall(s)
        \/ EvaluateReturns(s)
        \/ EvaluateKeyError(s)
        \/ EvaluateOracleFails(s)
        \/ AssembleReturns(s)
        \/ AssembleOracleFails(s)

Spec == InitLoaded /\ [][Next]_vars

\* Two threads of one process call the function, each once, at any time.
ThreadCall(s) ==
    /\ pc[s] = "idle"
    /\ \E T \in Profiles, n \in 1 .. MaxCalls : Call(s, T, n)
    /\ UNCHANGED uiVars

NextThreads ==
    \E s \in Searches : \/ ThreadCall(s)
        \/ EvaluateReturns(s)
        \/ EvaluateKeyError(s)
        \/ EvaluateOracleFails(s)
        \/ AssembleReturns(s)
        \/ AssembleOracleFails(s)

SpecThreads == InitLoaded /\ [][NextThreads]_vars

\* ------------------------------------------------------------ 4. the page
\* Largest number of presses of the search button in a session.
MaxClicks == 1

\* Variant: the widgets are shown whatever the load gave.
UiEnabled_mut(loaded) == TRUE
\* The page shows the search widgets only if the model was loaded.
UiEnabled(loaded) == loaded

\* Values the sliders give (all 6 keys, inside the slider ranges).
UiProfiles == {ProfileA, ProfileB}

InitUI ==
    /\ modelFile \in Models \cup {"missing", "unreadable"}
    /\ cache = << >>
    /\ multi_model_v3 = "None"
    /\ models_loaded = FALSE
    /\ uiPc = "start"
    /\ loadReports = 0
    /\ clicks = 0
    /\ TARGETS = EmptyDict
    /\ targets_dict = [s \in Searches |-> EmptyDict]
    /\ n_calls = [s \in Searches |-> 0]
    /\ pc = [s \in Searches |-> "idle"]
    /\ hist = [s \in Searches |-> << >>]
    /\ oracleCalls = [s \in Searches |-> 0]
    /\ ret = [s \in Searches |-> << >>]
    /\ raised = [s \in Searches |-> "none"]
    /\ gp = {}

\* A run of the script down to the page: load_models() runs its body only
\* when nothing is cached, reports a missing file there, and its result
\* decides which branch of the page is drawn.  An exception that
\* load_models does not catch ends the run before the page is drawn, and
\* nothing is cached.
ScriptRun ==
    /\ uiPc = "start"
    /\ IF cache = << >> /\ modelFile = "unreadable"
       THEN /\ uiPc' = "crashed"
            /\ UNCHANGED << cache, loadReports, multi_model_v3, models_loaded >>
       ELSE LET loaded == IF cache = << >> THEN load_models(modelFile) ELSE cache[1]
            IN  /\ cache' = << loaded >>
                /\ loadReports' = IF cache = << >> /\ ~ loaded[2]
                                   THEN loadReports + 1 ELSE loadReports
                /\ multi_model_v3' = loaded[1]
                /\ models_loaded' = loaded[2]
                /\ uiPc' = IF UiEnabled(loaded[2]) THEN "widgets" ELSE "disabled"
    /\ UNCHANGED << TARGETS, targets_dict, n_calls, pc, hist, oracleCalls,
                    ret, raised, gp, modelFile, clicks >>

\* The button is pressed: the slider values become user_targets and the
\* search is called with them and the chosen budget (the number input does
\* not go below the seed evaluations).
ButtonClick ==
    /\ uiPc = "widgets"
    /\ clicks < MaxClicks
    /\ \E T \in UiProfiles, n \in NInitialPoints .. MaxCalls : Call(1, T, n)
    /\ uiPc' = "searching"
    /\ clicks' = clicks + 1
    /\ UNCHANGED << modelFile, cache, loadReports >>

\* The search returned (the results are drawn) or raised (the run of the
\* script ends with the exception); the widgets stay.
SearchEnds ==
    /\ uiPc = "searching"
    /\ Finished(1)
    /\ uiPc' = "widgets"
    /\ UNCHANGED << multi_model_v3, models_loaded, TARGETS, targets_dict, n_calls,
                    pc, hist, oracleCalls, ret, raised, gp,
                    modelFile, cache, loadReports, clicks >>

\* Any interaction with the page runs the script again from the top.
Rerun ==
    /\ uiPc \in {"widgets", "disabled", "crashed"}
    /\ uiPc' = "start"
    /\ UNCHANGED << multi_model_v3, models_loaded, TARGETS, targets_dict, n_calls,
                    pc, hist, oracleCalls, ret, raised, gp,
                    modelFile, cache, loadReports, clicks >>

\* While the search runs, the script is inside find_best_recipe_v4_bayesian.
NextUI ==
    \/ ScriptRun
    \/ ButtonClick
    \/ uiPc = "searching" /\ EvaluateReturns(1)
    \/ uiPc = "searching" /\ EvaluateOracleFails(1)
    \/ uiPc = "searching" /\ AssembleReturns(1)
    \/ uiPc = "searching" /\ AssembleOracleFails(1)
    \/ SearchEnds
    \/ Rerun

SpecUI == InitUI /\ [][NextUI]_vars

\* ------------------------------------------------------------ properties
Done(s) == pc[s] = "done"

ValidProfile(T) == TargetKeys \subseteq DOMAIN T

\* Least error a search has observed.
BestError(s) ==
    CHOOSE e \in {hist[s][j].y : j \in 1 .. Len(hist[s])} :
        \A j \in 1 .. Len(hist[s]) : e <= hist[s][j].y

\* The prediction of a configuration given with the recipe's field names.
PredictionOfRecipe(r) ==
    get_pig_prediction_v3(multi_model_v3, r.breed, r.percent_sweet_potato,
        r.percent_oak, r.feed_days, r.temperature, r.walk_distance_km,
        r.stocking_density, r.air_quality)

\* The recipe that names the same configuration as the point x.
RecipeOfPoint(x) ==
    [breed |-> x.breed, percent_sweet_potato |-> x.sweet_potato,
     percent_oak |-> x.oak, feed_days |-> x.days, temperature |-> x.temperature,
     walk_distance_km |-> x.walk_distance, stocking_density |-> x.density,
     air_quality |-> x.air_quality]

\* r is v at 2 decimals: a whole number of hundredths within 0.005 of v.
IsRounded(r, v) == r % 2 = 0 /\ Abs(r - v) <= 1

\* Recipe r is point x with its continuous fields at 2 decimals.
IsRoundedRecipe(r, x) ==
    /\ r.breed = x.breed
    /\ r.feed_days = x.days
    /\ IsRounded(r.percent_sweet_potato, x.sweet_potato)
    /\ IsRounded(r.percent_oak, x.oak)
    /\ IsRounded(r.temperature, x.temperature)
    /\ IsRounded(r.walk_distance_km, x.walk_distance)
    /\ IsRounded(r.stocking_density, x.density)
    /\ IsRounded(r.air_quality, x.air_quality)

\* Observation j of search s has the least error, and none before it has.
EarliestMinimum(s, j) ==
    /\ \A k \in 1 .. Len(hist[s]) : hist[s][j].y <= hist[s][k].y
    /\ \A k \in 1 .. (j - 1) : hist[s][k].y > hist[s][j].y

\* C1: when two searches with different target profiles run interleaved,
\* every objective evaluation of a search computes its error against that
\* search's own target profile.
C1_OwnTargetProfile ==
    \A s, t \in Searches :
        (/\ s # t
         /\ pc[s] \in {"running", "done"} /\ pc[t] \in {"running", "done"}
         /\ ValidProfile(targets_dict[s]) /\ ValidProfile(targets_dict[t])
         /\ targets_dict[s] # targets_dict[t])
        => \A j \in 1 .. Len(hist[s]) : hist[s][j].target = targets_dict[s]

\* C2: a search with budget n_calls never makes more than n_calls objective
\* evaluations, each with one oracle call, and it returns after exactly
\* n_calls evaluations and one more oracle call: n_calls + 1 in total.  A
\* running search with budget left always has a next point to evaluate.
C2_ExactBudget ==
    \A s \in Searches :
        /\ Len(hist[s]) <= n_calls[s]
        /\ pc[s] = "running" => /\ oracleCalls[s] = Len(hist[s])
                                /\ n_calls[s] >= NInitialPoints
                                /\ BudgetLeft(s) => Ask(s) # {}
        /\ Done(s) => /\ Len(hist[s]) = n_calls[s]
                      /\ oracleCalls[s] = n_calls[s] + 1

C2_Witness ==
    \E s \in Searches :
        Done(s) /\ n_calls[s] = MaxCalls /\ n_calls[s] > NInitialPoints

\* C3 as stated: the returned configuration is the configuration of the
\* earliest observation with the least error.
C3_ReturnsObservedConfiguration ==
    \A s \in Searches :
        Done(s) => \E j \in 1 .. Len(hist[s]) :
                       /\ EarliestMinimum(s, j)
                       /\ ret[s][1] = RecipeOfPoint(hist[s][j].x)

\* C3 amended: the returned configuration is the configuration of the
\* earliest observation with the least error, with its continuous fields
\* rounded to 2 decimals.
C3_ReturnsRoundedEarliestMinimum ==
    \A s \in Searches :
        Done(s) => \E j \in 1 .. Len(hist[s]) :
                       /\ EarliestMinimum(s, j)
                       /\ IsRoundedRecipe(ret[s][1], hist[s][j].x)

\* Two different points tie for the least error, and the returned recipe is
\* the earlier one, rounded to something no observation holds.
C3_Witness ==
    \E s \in Searches :
        /\ Done(s)
        /\ \E j, k \in 1 .. Len(hist[s]) :
              /\ j < k
              /\ EarliestMinimum(s, j)
              /\ hist[s][k].y = hist[s][j].y
              /\ ~ IsRoundedRecipe(ret[s][1], hist[s][k].x)
              /\ ret[s][1] # RecipeOfPoint(hist[s][j].x)

\* C4: the returned outcome vector is the oracle's output on the returned
\* configuration, whose continuous fields have 2 decimals.
C4_PredictionOfReturnedRecipe ==
    \A s \in Searches :
        Done(s) => /\ ret[s][2] = PredictionOfRecipe(ret[s][1])
                   /\ \A f \in {"percent_sweet_potato", "percent_oak", "temperature",
                                 "walk_distance_km", "stocking_density", "air_quality"} :
                         ret[s][1][f] % 2 = 0

\* The oracle's output on the optimizer's raw best point is another one.
C4_Witness ==
    \E s \in Searches :
        /\ Done(s)
        /\ \E j \in 1 .. Len(hist[s]) :
              /\ EarliestMinimum(s, j)
              /\ ret[s][2] # hist[s][j].prediction

\* C5: a call whose target profile lacks a required key is rejected with
\* InvalidTargetProfile before any oracle call is made.
C5_InvalidProfileRejectedEarly ==
    \A s \in Searches :
        (pc[s] # "idle" /\ ~ ValidProfile(targets_dict[s])) =>
            /\ oracleCalls[s] = 0
            /\ raised[s] \in {"none", "ValueError", "InvalidTargetProfile"}

\* C6: a search in which an evaluation failed has failed as a whole and
\* has returned nothing, whatever it had observed before.
C6_FailureReturnsNothing ==
    \A s \in Searches :
        raised[s] # "none" => pc[s] = "failed" /\ ret[s] = << >>

\* The oracle failed in the last evaluation of the budget, after a best
\* observation existed.
C6_Witness ==
    \E s \in Searches :
        /\ raised[s] = "OracleError"
        /\ Len(hist[s]) = n_calls[s] - 1
        /\ Len(hist[s]) > NInitialPoints

C8_MonotonicBudget ==
    \A s, t \in Searches :
        (Done(s) /\ Done(t) /\ targets_dict[s] = targets_dict[t]
                 /\ n_calls[s] <= n_calls[t])
            => BestError(t) <= BestError(s)

\* The larger budget reached a strictly smaller error.
C8_Witness ==
    \E s, t \in Searches :
        /\ Done(s) /\ Done(t) /\ targets_dict[s] = targets_dict[t]
        /\ n_calls[s] < n_calls[t]
        /\ BestError(t) < BestError(s)

\* C9: two finished searches with the same target profile and the same
\* n_calls evaluated the same configurations in the same order, with the
\* same errors, and returned the same configuration and outcome vector.
C9_Deterministic ==
    \A s, t \in Searches :
        (Done(s) /\ Done(t) /\ targets_dict[s] = targets_dict[t]
                 /\ n_calls[s] = n_calls[t])
            => /\ [j \in 1 .. Len(hist[s]) |-> << hist[s][j].x, hist[s][j].y >>]
                  = [j \in 1 .. Len(hist[t]) |-> << hist[t][j].x, hist[t][j].y >>]
               /\ ret[s] = ret[t]

\* Both searches went through refinement.
C9_Witness ==
    /\ Done(1) /\ Done(2) /\ targets_dict[1] = targets_dict[2]
    /\ n_calls[1] = n_calls[2] /\ n_calls[1] > NInitialPoints + 1

\* The weight table (in the unit of the errors: 2.0 is 4) and the names
\* under which an outcome appears in a prediction and in a target profile.
WeightTable ==
    [imf |-> 4, sweetness |-> 2, aroma |-> 2, umami |-> 3, fat_quality |-> 2, ph |-> 3]
OutcomeNames == << "imf", "sweetness", "aroma", "umami", "fat_quality", "ph" >>
PredictionKey ==
    [imf |-> "predicted_imf", sweetness |-> "predicted_sweetness",
     aroma |-> "predicted_aroma", umami |-> "predicted_umami",
     fat_quality |-> "predicted_fat_quality", ph |-> "predicted_ph_24h"]
TargetKey ==
    [imf |-> "imf", sweetness |-> "sweet", aroma |-> "aroma", umami |-> "umami",
     fat_quality |-> "fat_q", ph |-> "ph"]

RECURSIVE WeightedError(_, _, _)
WeightedError(prediction, T, k) ==
    IF k = 0 THEN 0
    ELSE WeightTable[OutcomeNames[k]]
            * Abs(prediction[PredictionKey[OutcomeNames[k]]] - T[TargetKey[OutcomeNames[k]]])
         + WeightedError(prediction, T, k - 1)

\* Prediction p equals target profile T, outcome by outcome.
HitsTarget(p, T) ==
    \A k \in 1 .. 6 : p[PredictionKey[OutcomeNames[k]]] = T[TargetKey[OutcomeNames[k]]]

\* Predictions p and q agree on every outcome but imf.
OnlyImfDiffers(p, q) ==
    /\ p.predicted_sweetness = q.predicted_sweetness
    /\ p.predicted_aroma = q.predicted_aroma
    /\ p.predicted_umami = q.predicted_umami
    /\ p.predicted_fat_quality = q.predicted_fat_quality
    /\ p.predicted_ph_24h = q.predicted_ph_24h

\* C10: every recorded error is the weighted sum of the 6 absolute
\* differences between the prediction and the target profile read; it is
\* not negative, it is 0 when the prediction equals the target, and between
\* two evaluations that differ in the imf prediction only it differs by 2.0
\* times the change of the imf distance.
C10_WeightedAbsoluteError ==
    \A s \in Searches : \A j \in 1 .. Len(hist[s]) :
        /\ hist[s][j].y = WeightedError(hist[s][j].prediction, hist[s][j].target, 6)
        /\ hist[s][j].y >= 0
        /\ HitsTarget(hist[s][j].prediction, hist[s][j].target) => hist[s][j].y = 0
        /\ \A t \in Searches : \A k \in 1 .. Len(hist[t]) :
              (/\ hist[s][j].target = hist[t][k].target
               /\ OnlyImfDiffers(hist[s][j].prediction, hist[t][k].prediction))
              => hist[t][k].y - hist[s][j].y
                    = 4 * (Abs(hist[t][k].prediction.predicted_imf - hist[t][k].target.imf)
                           - Abs(hist[s][j].prediction.predicted_imf - hist[s][j].target.imf))

\* An evaluation hit the target exactly, and another one missed it by imf
\* alone.
C10_Witness ==
    \E s, t \in Searches : \E j \in 1 .. Len(hist[s]), k \in 1 .. Len(hist[t]) :
        LET o == hist[s][j]
            q == hist[t][k]
        IN  /\ o.target = q.target
            /\ HitsTarget(o.prediction, o.target)
            /\ o.y = 0
            /\ OnlyImfDiffers(o.prediction, q.prediction)
            /\ q.prediction.predicted_imf # o.prediction.predicted_imf
            /\ q.y > 0

====
